---- MODULE Spec2Model ----
(***************************************************************************)
(* Model of the audio feature scorers (backend/features.py) and of the     *)
(* /analyze request handler that drives them (backend/main.py).            *)
(*                                                                         *)
(* Floating-point values are modelled as exact rationals [n, d] in lowest  *)
(* terms; d = 0 is NaN (numpy's result for 0/0 and for the mean of an      *)
(* empty array).                                                           *)
(***************************************************************************)
EXTENDS Integers, Sequences, FiniteSets, TLC

VARIABLES pending, done, files, songs, reqs, extractor, issued

vars == <<pending, done, files, songs, reqs, extractor, issued>>

scorerVars == <<pending, done>>

serverVars == <<files, songs, reqs, extractor, issued>>

-----------------------------------------------------------------------------
(* Bounds of the model *)

\* longest series (number of analysis frames T) of one waveform
MaxFrames == 2

\* longest onset envelope handed to the danceability scorer
MaxOnset == 4

\* a "large amplitude" sample, far above every calibration range
Large == 1000

\* the grid of the generic normalize calls is k / NormDen, |k| <= NormDen + 1
NormDen == 2

\* number of /analyze requests the server receives
NumRequests == 2

-----------------------------------------------------------------------------
(* Float arithmetic as exact rationals *)

\* Python's None
None == [none |-> TRUE]

RECURSIVE GCD(_, _)
GCD(a, b) ==
    IF b = 0 THEN a ELSE GCD(b, a % b)

Abs(x) ==
    IF x < 0 THEN -x ELSE x

NaN == [n |-> 0, d |-> 0]

IsNaN(a) ==
    a.d = 0

\* the rational n/d in lowest terms with a positive denominator
R(n, d) ==
    IF d = 0 THEN NaN
    ELSE LET g == GCD(Abs(n), Abs(d))
             s == IF d < 0 THEN -1 ELSE 1
         IN  [n |-> (s * n) \div g, d |-> (s * d) \div g]

RAdd(a, b) ==
    IF IsNaN(a) \/ IsNaN(b) THEN NaN ELSE R(a.n * b.d + b.n * a.d, a.d * b.d)

RSub(a, b) ==
    IF IsNaN(a) \/ IsNaN(b) THEN NaN ELSE R(a.n * b.d - b.n * a.d, a.d * b.d)

RMul(a, b) ==
    IF IsNaN(a) \/ IsNaN(b) THEN NaN ELSE R(a.n * b.n, a.d * b.d)

\* numpy float division; the only zero divisor any call reaches is 0/0 = nan
RDiv(a, b) ==
    IF IsNaN(a) \/ IsNaN(b) \/ b.n = 0 THEN NaN ELSE R(a.n * b.d, a.d * b.n)

\* comparisons with NaN are false
RLt(a, b) ==
    ~IsNaN(a) /\ ~IsNaN(b) /\ a.n * b.d < b.n * a.d

RLe(a, b) ==
    ~IsNaN(a) /\ ~IsNaN(b) /\ a.n * b.d <= b.n * a.d

RGt(a, b) ==
    RLt(b, a)

Zero == R(0, 1)

One == R(1, 1)

InUnit(a) ==
    RLe(Zero, a) /\ RLe(a, One)

\* np.clip(x, lo, hi) = minimum(maximum(x, lo), hi); nan propagates
Clip(x, lo, hi) ==
    IF IsNaN(x) THEN NaN
    ELSE IF RLt(x, lo) THEN lo
    ELSE IF RLt(hi, x) THEN hi
    ELSE x

RECURSIVE Sum(_)
Sum(s) ==
    IF s = <<>> THEN Zero ELSE RAdd(Head(s), Sum(Tail(s)))

\* np.mean: nan for an empty array
Mean(s) ==
    RDiv(Sum(s), R(Len(s), 1))

\* np.diff of an integer sequence
Diff(s) ==
    [i \in 1..(Len(s) - 1) |-> s[i + 1] - s[i]]

ToR(s) ==
    [i \in 1..Len(s) |-> R(s[i], 1)]

\* np.var (population variance, ddof = 0): mean(|x - mean(x)|^2)
Var(s) ==
    LET m == Mean(s)
    IN  Mean([i \in 1..Len(s) |-> RMul(RSub(s[i], m), RSub(s[i], m))])

-----------------------------------------------------------------------------
(* The scorers of AudioFeatureExtractor *)

\* _normalize without the upper clamp
NormalizeUnclamped(value, min_val, max_val) ==
    LET x == RDiv(RSub(value, min_val), RSub(max_val, min_val))
    IN  IF RLt(x, Zero) THEN Zero ELSE x

\* _normalize that forgets to subtract min_val
NormalizeUnshifted(value, min_val, max_val) ==
    Clip(RDiv(value, RSub(max_val, min_val)), Zero, One)

_normalize(value, min_val, max_val) ==
    Clip(RDiv(RSub(value, min_val), RSub(max_val, min_val)), Zero, One)

_calculate_energy(rms, spec_cent, onset_env) ==
    LET norm_rms   == _normalize(Mean(rms), R(0, 1), R(3, 10))
        norm_cent  == _normalize(Mean(spec_cent), R(500, 1), R(4000, 1))
        norm_onset == _normalize(Mean(onset_env), R(0, 1), R(15, 10))
    IN  RAdd(RAdd(RMul(norm_rms, R(1, 2)), RMul(norm_cent, R(1, 4))),
             RMul(norm_onset, R(1, 4)))

\* the tempo branch with its lower bound off by one comparison (<= 50)
TempoFactorInclusive(tempo) ==
    IF RLe(tempo, R(50, 1)) \/ RGt(tempo, R(200, 1)) THEN R(1, 2)
    ELSE IF RLe(R(90, 1), tempo) /\ RLe(tempo, R(140, 1)) THEN R(1, 1)
    ELSE R(4, 5)

\* the three-way tempo branch of _calculate_danceability
TempoFactor(tempo) ==
    IF RLt(tempo, R(50, 1)) \/ RGt(tempo, R(200, 1)) THEN R(1, 2)
    ELSE IF RLe(R(90, 1), tempo) /\ RLe(tempo, R(140, 1)) THEN R(1, 1)
    ELSE R(4, 5)

\* the early return taken for an empty beat list only
NoBeats(beat_frames) ==
    Len(beat_frames) < 1

\* len(beat_frames) < 2, the guard of the early return
TooFewBeats(beat_frames) ==
    Len(beat_frames) < 2

\* beat_frames holds 0-based frame indices into onset_env; `reads` records the
\* indices at which onset_env[beat_frames] reads the envelope
_calculate_danceability(onset_env, beat_frames, tempo) ==
    IF TooFewBeats(beat_frames)
    THEN [ret |-> R(0, 1), reads |-> {}, tempo_factor |-> None]
    ELSE LET beat_strengths == [i \in 1..Len(beat_frames) |-> onset_env[beat_frames[i] + 1]]
             norm_beat_strength == _normalize(Mean(beat_strengths), R(0, 1), R(3, 1))
             intervals == Diff(beat_frames)
             var_intervals == Var(ToR(intervals))
             pulse_clarity == RDiv(One, RAdd(One, RDiv(var_intervals, R(50, 1))))
             tempo_factor == TempoFactor(tempo)
         IN  [ret |-> RAdd(RAdd(RMul(norm_beat_strength, R(4, 10)),
                                RMul(pulse_clarity, R(4, 10))),
                           RMul(tempo_factor, R(2, 10))),
              reads |-> {beat_frames[i] : i \in 1..Len(beat_frames)},
              tempo_factor |-> tempo_factor]

\* acousticness with the flatness term left uninverted
AcousticnessUninverted(spec_flat, spec_roll) ==
    LET norm_flatness == _normalize(Mean(spec_flat), R(0, 1), R(1, 10))
        norm_rolloff  == RSub(One, _normalize(Mean(spec_roll), R(1000, 1), R(7000, 1)))
    IN  RAdd(RMul(norm_flatness, R(6, 10)), RMul(norm_rolloff, R(4, 10)))

_calculate_acousticness(spec_flat, spec_roll) ==
    LET norm_flatness == RSub(One, _normalize(Mean(spec_flat), R(0, 1), R(1, 10)))
        norm_rolloff  == RSub(One, _normalize(Mean(spec_roll), R(1000, 1), R(7000, 1)))
    IN  RAdd(RMul(norm_flatness, R(6, 10)), RMul(norm_rolloff, R(4, 10)))

PitchClasses == 0..11

\* np.sum(chroma, axis=1): chroma[pc] is the row of pitch class pc over the frames
ChromaSum(chroma) ==
    [pc \in PitchClasses |-> Sum(chroma[pc])]

\* np.argmax: the first index holding the maximum
ArgMax(chroma_sum) ==
    CHOOSE i \in PitchClasses :
        /\ \A j \in PitchClasses : RLe(chroma_sum[j], chroma_sum[i])
        /\ \A j \in 0..(i - 1) : RLt(chroma_sum[j], chroma_sum[i])

\* the profile left unrotated
Unrolled(a, shift) ==
    a

\* np.roll(a, -shift): element i of the result is a[(i + shift) mod 12]
Roll(a, shift) ==
    [i \in PitchClasses |-> a[(i + shift) % 12]]

\* major_strength > minor_strength picks the major score
ModeScore(chroma_rotated) ==
    IF RGt(chroma_rotated[4], chroma_rotated[3]) THEN R(75, 100) ELSE R(35, 100)

\* the ratio without its zero-energy guard
HPRatioUnguarded(h_energy, p_energy) ==
    RDiv(h_energy, RAdd(h_energy, p_energy))

\* the harmonic/percussive ratio with its zero-energy default
HPRatio(h_energy, p_energy) ==
    IF RGt(RAdd(h_energy, p_energy), Zero)
    THEN RDiv(h_energy, RAdd(h_energy, p_energy))
    ELSE R(1, 2)

\* chroma, rms_h and rms_p are what librosa.feature.chroma_cqt(y_harmonic),
\* librosa.feature.rms(y_harmonic) and librosa.feature.rms(y_percussive) return
_calculate_valence(chroma, rms_h, rms_p) ==
    LET chroma_sum == ChromaSum(chroma)
        tonic_idx == ArgMax(chroma_sum)
        chroma_rotated == Roll(chroma_sum, tonic_idx)
        mode_score == ModeScore(chroma_rotated)
        h_energy == Mean(rms_h)
        p_energy == Mean(rms_p)
        ratio == HPRatio(h_energy, p_energy)
        valence == RAdd(RMul(mode_score, R(7, 10)), RMul(ratio, R(3, 10)))
    IN  [ret |-> Clip(valence, Zero, One), tonic_idx |-> tonic_idx,
         mode_score |-> mode_score, h_energy |-> h_energy, p_energy |-> p_energy,
         ratio |-> ratio]

-----------------------------------------------------------------------------
(* Inputs of the scorers: what the librosa primitives hand to them *)

\* all series of exactly T frames over the samples S
Series(T, S) ==
    [1..T -> S]

\* all non-empty series of at most MaxFrames frames
SeriesUpTo(S) ==
    UNION {Series(T, S) : T \in 1..MaxFrames}

RmsSamples == {R(0, 1), R(3, 20), R(Large, 1)}

CentSamples == {R(0, 1), R(4000, 1)}

OnsetSamples == {R(0, 1), R(3, 1)}

BeatOnsetSamples == {R(0, 1), R(6, 1)}

FlatSamples == {R(0, 1), R(3, 20)}

RollSamples == {R(0, 1), R(8000, 1)}

WideFlatSamples == {R(0, 1), R(1, 10), R(Large, 1)}

WideRollSamples == {R(0, 1), R(4000, 1), R(Large, 1)}

HPSamples == {R(0, 1), R(3, 10), R(Large, 1)}

ChromaLevels == 0..1

TempoSamples ==
    {R(0, 1), R(49, 1), R(99, 2), R(50, 1), R(89, 1), R(90, 1), R(120, 1), R(140, 1),
     R(281, 2), R(141, 1), R(200, 1), R(401, 2), R(201, 1), R(Large, 1)}

NormGrid == {R(k, NormDen) : k \in (0 - NormDen - 1)..(NormDen + 1)}

NormValues == NormGrid \cup {R(0 - Large, 1), R(Large, 1)}

\* the strictly increasing sequence of the elements of a set of integers
RECURSIVE Sorted(_)
Sorted(S) ==
    IF S = {} THEN <<>>
    ELSE LET m == CHOOSE x \in S : \A y \in S : x <= y
         IN  <<m>> \o Sorted(S \ {m})

\* a chroma matrix whose energy lies at pitch class t and k semitones above it
Chroma(t, k, eT, eK) ==
    [pc \in PitchClasses |->
        IF pc = t THEN ToR(eT)
        ELSE IF pc = (t + k) % 12 THEN ToR(eK)
        ELSE [i \in 1..Len(eT) |-> Zero]]

Call(fn, args) ==
    [fn |-> fn, args |-> args]

\* two calls of _normalize under the same calibration range
NormInputs(p) ==
    \E v1 \in NormValues, v2 \in NormValues, lo \in NormGrid, hi \in NormGrid :
        /\ RLt(lo, hi)
        /\ p = <<Call("normalize", <<v1, lo, hi>>), Call("normalize", <<v2, lo, hi>>)>>

\* the series of one waveform all have its number of frames T
EnergyInputs(p) ==
    \E T \in 1..MaxFrames :
        \E a \in Series(T, RmsSamples), b \in Series(T, CentSamples),
           c \in Series(T, OnsetSamples) :
            p = <<Call("energy", <<a, b, c>>)>>

\* beat_frames: strictly increasing frame indices into the onset envelope
DanceInputs(p) ==
    \E L \in 1..MaxOnset :
        \E o \in Series(L, BeatOnsetSamples) \cup {[i \in 1..L |-> R(Large, 1)]},
           B \in SUBSET (0..(L - 1)),
           t \in TempoSamples :
            p = <<Call("danceability", <<o, Sorted(B), t>>)>>

\* one call over wide-ranging samples
AcousticInputs(p) ==
    \E T \in 1..MaxFrames :
        \E f \in Series(T, WideFlatSamples), r \in Series(T, WideRollSamples) :
            p = <<Call("acousticness", <<f, r>>)>>

\* two calls that differ in the flatness series only, or in the rolloff series only
AcousticPairInputs(p) ==
    \E f1 \in SeriesUpTo(FlatSamples), r1 \in SeriesUpTo(RollSamples) :
        \/ \E f2 \in SeriesUpTo(FlatSamples) :
              p = <<Call("acousticness", <<f1, r1>>), Call("acousticness", <<f2, r1>>)>>
        \/ \E r2 \in SeriesUpTo(RollSamples) :
              p = <<Call("acousticness", <<f1, r1>>), Call("acousticness", <<f1, r2>>)>>

ValenceInputs(p) ==
    \E T \in 1..MaxFrames :
        \E t \in PitchClasses, k \in {3, 4}, eT \in Series(T, ChromaLevels),
           eK \in Series(T, ChromaLevels), h \in HPSamples, q \in HPSamples :
            p = <<Call("valence", <<Chroma(t, k, eT, eK),
                                    [i \in 1..T |-> h], [i \in 1..T |-> q]>>)>>

Inputs(p) ==
    \/ NormInputs(p)
    \/ EnergyInputs(p)
    \/ DanceInputs(p)
    \/ AcousticInputs(p)
    \/ AcousticPairInputs(p)
    \/ ValenceInputs(p)

-----------------------------------------------------------------------------
(* extract_features and the uploads it is given *)

\* AudioFeatureExtractor.__init__ sets no attribute: the instance __dict__ is empty
AudioFeatureExtractor == {}

\* What librosa measures on a decodable upload: onset_strength, beat_track, rms,
\* spectral_centroid, spectral_flatness, spectral_rolloff, chroma_cqt of the harmonic
\* part and rms of the harmonic and percussive parts, all over the same frames
Measurements(content) ==
    IF content = "silence"
    THEN [onset_env |-> <<R(0, 1), R(0, 1)>>, beat_frames |-> <<>>, tempo |-> R(0, 1),
          rms |-> <<R(0, 1), R(0, 1)>>, spec_cent |-> <<R(0, 1), R(0, 1)>>,
          spec_flat |-> <<R(1, 1), R(1, 1)>>, spec_roll |-> <<R(0, 1), R(0, 1)>>,
          chroma |-> Chroma(0, 4, <<0, 0>>, <<0, 0>>),
          rms_h |-> <<R(0, 1), R(0, 1)>>, rms_p |-> <<R(0, 1), R(0, 1)>>]
    ELSE [onset_env |-> <<R(0, 1), R(2, 1), R(0, 1), R(2, 1)>>, beat_frames |-> <<1, 3>>,
          tempo |-> R(120, 1),
          rms |-> <<R(1, 10), R(2, 10), R(1, 10), R(2, 10)>>,
          spec_cent |-> <<R(440, 1), R(460, 1), R(440, 1), R(460, 1)>>,
          spec_flat |-> <<R(1, 100), R(1, 100), R(1, 100), R(1, 100)>>,
          spec_roll |-> <<R(900, 1), R(1500, 1), R(900, 1), R(1500, 1)>>,
          chroma |-> Chroma(9, 4, <<1, 1, 1, 1>>, <<1, 0, 1, 0>>),
          rms_h |-> <<R(2, 10), R(2, 10), R(2, 10), R(2, 10)>>,
          rms_p |-> <<R(0, 1), R(1, 10), R(0, 1), R(1, 10)>>]

\* an extractor that keeps the first result it computed and returns it from then on
ExtractFeaturesMemo(self, content) ==
    IF content = "corrupt" THEN [ret |-> None, raised |-> FALSE, self |-> self]
    ELSE IF content = "truncated" THEN [ret |-> None, raised |-> TRUE, self |-> self]
    ELSE IF self # {} THEN [ret |-> (CHOOSE a \in self : TRUE)[2], raised |-> FALSE,
                            self |-> self]
    ELSE LET m == Measurements(content)
             f == [energy |-> _calculate_energy(m.rms, m.spec_cent, m.onset_env),
                   danceability |->
                       _calculate_danceability(m.onset_env, m.beat_frames, m.tempo).ret,
                   tempo |-> m.tempo,
                   acousticness |-> _calculate_acousticness(m.spec_flat, m.spec_roll),
                   valence |-> _calculate_valence(m.chroma, m.rms_h, m.rms_p).ret]
         IN  [ret |-> f, raised |-> FALSE, self |-> {<<"last", f>>}]

\* extract_features(self, file_path) on a file holding `content`: the value it
\* returns (None when librosa.load raises), or the exception a later librosa
\* call lets escape, and the instance attributes it leaves behind
ExtractFeatures(self, content) ==
    IF content = "corrupt" THEN [ret |-> None, raised |-> FALSE, self |-> self]
    ELSE IF content = "truncated" THEN [ret |-> None, raised |-> TRUE, self |-> self]
    ELSE LET m == Measurements(content)
         IN  [ret |-> [energy |-> _calculate_energy(m.rms, m.spec_cent, m.onset_env),
                       danceability |->
                           _calculate_danceability(m.onset_env, m.beat_frames, m.tempo).ret,
                       tempo |-> m.tempo,
                       acousticness |-> _calculate_acousticness(m.spec_flat, m.spec_roll),
                       valence |-> _calculate_valence(m.chroma, m.rms_h, m.rms_p).ret],
              raised |-> FALSE, self |-> self]

-----------------------------------------------------------------------------
(* The /analyze handler of main.py *)

Requests == 1..NumRequests

\* uuid.uuid4() values
UUIDs == 1..NumRequests

\* an uploaded file: its name as its dot-separated parts, and what it holds
Uploads ==
    {[filename |-> <<"noise", "mp3">>, content |-> "corrupt"],
     [filename |-> <<"clip", "wav">>, content |-> "truncated"],
     [filename |-> <<"quiet", "wav">>, content |-> "silence"],
     [filename |-> <<"tone">>, content |-> "tone"]}

IdleRequest ==
    [pc |-> "idle", upload |-> None, temp_filename |-> None, analysed |-> FALSE,
     features |-> None, exc |-> None, committed |-> FALSE, status |-> 0]

\* f"temp_{uuid.uuid4()}.{file.filename.split('.')[-1]}"
TempFilename(uuid, filename) ==
    [uuid |-> uuid, ext |-> filename[Len(filename)]]

HTTPException(status_code) ==
    [class |-> "HTTPException", status_code |-> status_code]

\* the classes `except Exception` catches: HTTPException derives from Exception
CaughtByExceptException(exc) ==
    exc.class \in {"HTTPException", "LibrosaError", "SQLAlchemyError"}

\* the handler is a coroutine without an await: the event loop runs one request
\* from its first line to its last before it starts the next
NoneInFlight ==
    \A q \in Requests : reqs[q].pc \in {"idle", "done"}

\* line 55: the request arrives and names its temporary file
Receive(r) ==
    /\ reqs[r].pc = "idle"
    /\ NoneInFlight
    /\ \A q \in Requests : q < r => reqs[q].pc = "done"
    /\ \E up \in Uploads, u \in UUIDs \ issued :
          /\ reqs' = [reqs EXCEPT ![r].pc = "open", ![r].upload = up,
                                  ![r].temp_filename = TempFilename(u, up.filename)]
          /\ issued' = issued \cup {u}
    /\ UNCHANGED <<files, songs, extractor, scorerVars>>

\* line 56: open(temp_filename, "wb") creates the file, or raises outside the try
OpenTemp(r) ==
    /\ reqs[r].pc = "open"
    /\ \/ /\ files' = files \cup {reqs[r].temp_filename}
          /\ reqs' = [reqs EXCEPT ![r].pc = "copy"]
       \/ /\ files' = files
          /\ reqs' = [reqs EXCEPT ![r].pc = "done", ![r].status = 500]
    /\ UNCHANGED <<songs, extractor, issued, scorerVars>>

\* line 57: shutil.copyfileobj fills the file, or raises outside the try
CopyUpload(r) ==
    /\ reqs[r].pc = "copy"
    /\ \/ reqs' = [reqs EXCEPT ![r].pc = "extract"]
       \/ reqs' = [reqs EXCEPT ![r].pc = "done", ![r].status = 500]
    /\ UNCHANGED <<files, songs, extractor, issued, scorerVars>>

\* lines 61-63: the shared extractor analyses the temporary file
Extract(r) ==
    /\ reqs[r].pc = "extract"
    /\ reqs[r].temp_filename \in files
    /\ LET out == ExtractFeatures(extractor, reqs[r].upload.content)
       IN  /\ extractor' = out.self
           /\ reqs' =
                IF out.raised
                THEN [reqs EXCEPT ![r].pc = "except",
                                  ![r].exc = [class |-> "LibrosaError"]]
                ELSE IF out.ret = None
                THEN [reqs EXCEPT ![r].pc = "except", ![r].analysed = TRUE,
                                  ![r].exc = HTTPException(400)]
                ELSE [reqs EXCEPT ![r].pc = "save", ![r].analysed = TRUE,
                                  ![r].features = out.ret]
    /\ UNCHANGED <<files, songs, issued, scorerVars>>

\* lines 66-68: db.add and db.commit; a failed commit leaves no row
SaveSong(r) ==
    /\ reqs[r].pc = "save"
    /\ \/ /\ songs' = Append(songs, [filename |-> reqs[r].upload.filename,
                                     features |-> reqs[r].features])
          /\ reqs' = [reqs EXCEPT ![r].pc = "refresh", ![r].committed = TRUE]
       \/ /\ songs' = songs
          /\ reqs' = [reqs EXCEPT ![r].pc = "except",
                                  ![r].exc = [class |-> "SQLAlchemyError"]]
    /\ UNCHANGED <<files, extractor, issued, scorerVars>>

\* lines 69-71: db.refresh reads the row back, then the handler returns
Refresh(r) ==
    /\ reqs[r].pc = "refresh"
    /\ \/ reqs' = [reqs EXCEPT ![r].pc = "finally"]
       \/ reqs' = [reqs EXCEPT ![r].pc = "except",
                               ![r].exc = [class |-> "SQLAlchemyError"]]
    /\ UNCHANGED <<files, songs, extractor, issued, scorerVars>>

\* lines 73-74: except Exception as e: raise HTTPException(status_code=500, ...)
Except(r) ==
    /\ reqs[r].pc = "except"
    /\ reqs' = [reqs EXCEPT ![r].pc = "finally",
                            ![r].exc = IF CaughtByExceptException(reqs[r].exc)
                                       THEN HTTPException(500) ELSE reqs[r].exc]
    /\ UNCHANGED <<files, songs, extractor, issued, scorerVars>>

\* lines 75-78: the cleanup, then the response: 200, or the raised status code
Finally(r) ==
    /\ reqs[r].pc = "finally"
    /\ files' = files \ {reqs[r].temp_filename}
    /\ reqs' = [reqs EXCEPT ![r].pc = "done",
                            ![r].status = IF reqs[r].exc = None THEN 200
                                          ELSE reqs[r].exc.status_code]
    /\ UNCHANGED <<songs, extractor, issued, scorerVars>>

\* no request yet, an empty songs table, the module-level extractor of line 46
InitServer ==
    /\ files = {}
    /\ songs = <<>>
    /\ reqs = [r \in Requests |-> IdleRequest]
    /\ extractor = AudioFeatureExtractor
    /\ issued = {}

InitRequests ==
    /\ pending = <<>>
    /\ done = <<>>
    /\ InitServer

NextRequests ==
    \E r \in Requests :
        \/ Receive(r)
        \/ OpenTemp(r)
        \/ CopyUpload(r)
        \/ Extract(r)
        \/ SaveSong(r)
        \/ Refresh(r)
        \/ Except(r)
        \/ Finally(r)

SpecServer == InitRequests /\ [][NextRequests]_vars

-----------------------------------------------------------------------------
(* The scorer specification: each action applies one scorer to the next call *)

Init ==
    /\ Inputs(pending)
    /\ done = <<>>
    /\ InitServer

Return(result) ==
    /\ done' = Append(done, [call |-> Head(pending), result |-> result])
    /\ pending' = Tail(pending)
    /\ UNCHANGED serverVars

Next_(fn) ==
    pending # <<>> /\ Head(pending).fn = fn

Normalize ==
    /\ Next_("normalize")
    /\ LET a == Head(pending).args
       IN  Return([ret |-> _normalize(a[1], a[2], a[3])])

CalculateEnergy ==
    /\ Next_("energy")
    /\ LET a == Head(pending).args
       IN  Return([ret |-> _calculate_energy(a[1], a[2], a[3])])

CalculateDanceability ==
    /\ Next_("danceability")
    /\ LET a == Head(pending).args
       IN  Return(_calculate_danceability(a[1], a[2], a[3]))

CalculateAcousticness ==
    /\ Next_("acousticness")
    /\ LET a == Head(pending).args
       IN  Return([ret |-> _calculate_acousticness(a[1], a[2])])

CalculateValence ==
    /\ Next_("valence")
    /\ LET a == Head(pending).args
       IN  Return(_calculate_valence(a[1], a[2], a[3]))

Next ==
    \/ Normalize
    \/ CalculateEnergy
    \/ CalculateDanceability
    \/ CalculateAcousticness
    \/ CalculateValence

Spec == Init /\ [][Next]_vars

-----------------------------------------------------------------------------
(* Properties *)

Done == {done[i] : i \in DOMAIN done}

DoneOf(fn) == {c \in Done : c.call.fn = fn}

\* C1: every score that _calculate_energy, _calculate_danceability,
\* _calculate_acousticness and _calculate_valence return lies in [0,1], for
\* all-zero, in-range and large input series alike.
C1_ScoresInUnitInterval ==
    \A c \in Done :
        c.call.fn \in {"energy", "danceability", "acousticness", "valence"}
            => InUnit(c.result.ret)

\* a large-amplitude envelope on a regular beat at a danceable tempo scores exactly 1
C1_Witness ==
    \E c \in DoneOf("danceability") :
        /\ Len(c.call.args[2]) >= 2
        /\ \E i \in DOMAIN c.call.args[1] : c.call.args[1][i] = R(Large, 1)
        /\ c.result.ret = One

\* C2: when extract_features returned None for a request, the response of that
\* request carries status 400.
C2_DecodeFailureIs400 ==
    \A r \in Requests :
        (reqs[r].pc = "done" /\ reqs[r].analysed /\ reqs[r].features = None)
            => reqs[r].status = 400

\* the profile of a valence call: the chroma matrix summed over its frames
Profile(c) ==
    [pc \in PitchClasses |-> Sum(c.call.args[1][pc])]

\* all energy of the profile p lies at pitch class t and k semitones above it
Concentrated(p, t, k) ==
    /\ RGt(p[t], Zero)
    /\ RGt(p[(t + k) % 12], Zero)
    /\ \A i \in PitchClasses \ {t, (t + k) % 12} : p[i] = Zero

\* C3 as stated: tonic + major third gives mode score 0.75 and tonic + minor
\* third gives 0.35, at every key and for every split of the energy.
C3_ModeFollowsThird ==
    \A c \in DoneOf("valence") : \A t \in PitchClasses :
        /\ Concentrated(Profile(c), t, 4) => c.result.mode_score = R(75, 100)
        /\ Concentrated(Profile(c), t, 3) => c.result.mode_score = R(35, 100)

\* C3 amended: tonic + major third gives 0.75 exactly when np.argmax selects the
\* tonic (the tonic bin holds more energy than the third, or as much and the lower
\* index, i.e. tonic below pitch class 8) and 0.35 otherwise; tonic + minor third
\* always gives 0.35.
C3_ModeFollowsThirdOfArgmax ==
    \A c \in DoneOf("valence") : \A t \in PitchClasses :
        LET p == Profile(c)
        IN  /\ Concentrated(p, t, 4) =>
                  /\ c.result.mode_score \in {R(75, 100), R(35, 100)}
                  /\ c.result.mode_score = R(75, 100)
                        <=> (RGt(p[t], p[(t + 4) % 12])
                                \/ (p[t] = p[(t + 4) % 12] /\ t < 8))
            /\ Concentrated(p, t, 3) => c.result.mode_score = R(35, 100)

\* a major third above a dominant tonic at a key whose third wraps around (A, C#)
C3_Witness ==
    \E c \in DoneOf("valence") :
        /\ Concentrated(Profile(c), 9, 4)
        /\ RGt(Profile(c)[9], Profile(c)[1])
        /\ c.result.mode_score = R(75, 100)

\* C4: with fewer than 2 beat frames _calculate_danceability returns exactly 0.0
\* and reads the onset envelope at no beat index.
C4_FewBeatsGiveZero ==
    \A c \in DoneOf("danceability") :
        Len(c.call.args[2]) < 2 => (c.result.ret = R(0, 1) /\ c.result.reads = {})

\* one beat on a loud frame
C4_Witness ==
    \E c \in DoneOf("danceability") :
        /\ Len(c.call.args[2]) = 1
        /\ c.call.args[1][c.call.args[2][1] + 1] = R(Large, 1)
        /\ c.result.ret = Zero

\* the tempo factor the claim tabulates at its seven boundary tempos
TempoTable ==
    {<<R(49, 1), R(1, 2)>>, <<R(50, 1), R(4, 5)>>, <<R(90, 1), One>>, <<R(140, 1), One>>,
     <<R(141, 1), R(4, 5)>>, <<R(200, 1), R(4, 5)>>, <<R(201, 1), R(1, 2)>>}

C6_NormalizeClipsAndIsMonotone ==
    /\ \A c \in DoneOf("normalize") :
          LET v == c.call.args[1]
              lo == c.call.args[2]
              hi == c.call.args[3]
          IN  RLt(lo, hi) =>
                /\ InUnit(c.result.ret)
                /\ RLe(v, lo) => c.result.ret = Zero
                /\ RLe(hi, v) => c.result.ret = One
    /\ \A a \in DoneOf("normalize"), b \in DoneOf("normalize") :
          (a.call.args[2] = b.call.args[2] /\ a.call.args[3] = b.call.args[3]
              /\ RLe(a.call.args[1], b.call.args[1]))
              => RLe(a.result.ret, b.result.ret)

\* two values strictly inside the range, normalized to two different inner values
C6_Witness ==
    /\ Len(done) = 2
    /\ done[1].call.fn = "normalize"
    /\ RLt(done[1].call.args[1], done[2].call.args[1])
    /\ RLt(Zero, done[1].result.ret)
    /\ RLt(done[1].result.ret, done[2].result.ret)
    /\ RLt(done[2].result.ret, One)

\* C7: of two acousticness calls with the same rolloff series, the one with the
\* larger mean flatness scores no higher; likewise for a larger mean rolloff
\* under the same flatness series.
C7_AcousticnessDecreasing ==
    \A a \in DoneOf("acousticness"), b \in DoneOf("acousticness") :
        /\ (a.call.args[2] = b.call.args[2]
              /\ RLe(Mean(a.call.args[1]), Mean(b.call.args[1])))
              => RLe(b.result.ret, a.result.ret)
        /\ (a.call.args[1] = b.call.args[1]
              /\ RLe(Mean(a.call.args[2]), Mean(b.call.args[2])))
              => RLe(b.result.ret, a.result.ret)

\* a flatter (noisier) second input under the same rolloff scores strictly lower
C7_Witness ==
    /\ Len(done) = 2
    /\ done[1].call.fn = "acousticness"
    /\ done[1].call.args[2] = done[2].call.args[2]
    /\ RLt(Mean(done[1].call.args[1]), Mean(done[2].call.args[1]))
    /\ RLt(done[2].result.ret, done[1].result.ret)

C9_RatioDefined ==
    \A c \in DoneOf("valence") :
        LET h == c.result.h_energy
            p == c.result.p_energy
        IN  /\ (h = Zero /\ p = Zero) => c.result.ratio = R(1, 2)
            /\ ~(h = Zero /\ p = Zero) => RMul(c.result.ratio, RAdd(h, p)) = h
            /\ InUnit(c.result.ratio)
            /\ ~IsNaN(c.result.ret)

\* silence: both energies zero, the neutral ratio, a defined valence
C9_Witness ==
    \E c \in DoneOf("valence") :
        /\ c.result.h_energy = Zero
        /\ c.result.p_energy = Zero
        /\ c.result.ratio = R(1, 2)
        /\ InUnit(c.result.ret)

\* C10: once a request has finished, the temporary file it created is gone,
\* and it added a Song row only if it answered 200.
C10_TempFileRemoved ==
    \A r \in Requests :
        reqs[r].pc = "done" =>
            /\ reqs[r].temp_filename \notin files
            /\ reqs[r].committed => reqs[r].status = 200

====
